---- MODULE Spec2Model ----
(***************************************************************************)
(* Model of examples/lightsc.py: LightsClient, the JSON-RPC client of      *)
(* lightsd.  JSON texts are modelled as sequences of lexemes (strings):    *)
(* the separators "," and ":" are dropped, everything else is kept, so     *)
(* that json.dumps and json.loads are real conversions and a truncated     *)
(* text does not parse.                                                    *)
(***************************************************************************)
EXTENDS Integers, Sequences, FiniteSets, TLC

\* ------------------------------------------------------------------ bounds
\* envelopes constructed in one run (calls to _make_payload)
MaxCalls == 2
\* batch scopes entered in one run
MaxBatches == 2
\* lexemes of a reply that may still be in flight when recv returns
MaxUnread == 1
\* calls of adjust_brightness in one run
MaxAdjusts == 1
\* socket.recv(8192)
RecvBufSize == 8192

VARIABLES
    batch,      \* self._batch
    pipeline,   \* self._pipeline
    sock,       \* self._socket: "open", "peer_closed", "broken" or "closed"
    unread,     \* lexemes the server wrote that no recv has returned yet
    wire,       \* how many texts socket.send has written
    nextId,     \* number of the next uuid4 drawn
    scopes,     \* the open `with batch()` blocks, innermost last
    nBatches,   \* batch scopes entered so far
    made,       \* every envelope _make_payload has constructed, in order
    flushed,    \* the ids of each array a batch close has written, in order
    ab,         \* the running (or last) call of adjust_brightness
    last        \* what the last operation did and gave back to its caller

vars == <<batch, pipeline, sock, unread, wire, nextId, scopes, nBatches, made,
          flushed, ab, last>>

\* ------------------------------------------------------------ Python values
None == [kind |-> "None"]
PyStr(text) == [kind |-> "str", text |-> text]
PyDict(env) == [kind |-> "dict", env |-> env]
PyList(items) == [kind |-> "list", items |-> items]
ResultDict(id, r) == [kind |-> "dict", id |-> id, member |-> "result", result |-> r]
ErrorDict(id, c, m) ==
    [kind |-> "dict", id |-> id, member |-> "error", code |-> c, message |-> m]
\* the reply to get_light_state: its result is a list of bulbs
StateDict(id, bulbs) ==
    [kind |-> "dict", id |-> id, member |-> "result", bulbs |-> bulbs]
\* one bulb of that list; numbers with a fraction are counted in tenths
Bulb(label, h, s, b, k) == [label |-> label, hsbk |-> <<h, s, b, k>>]

Min(a, b) == IF a < b THEN a ELSE b

\* ------------------------------------------------------- request envelopes
Named(keys, vals) == [shape |-> "map", keys |-> keys, vals |-> vals]
Positional(vals) == [shape |-> "list", keys |-> <<>>, vals |-> vals]

\* a generator that hands out the same id every time
Uuid4Constant(n) == "4"

\* str(uuid.uuid4()): a fresh non-empty string per draw
Uuid4(n) == ToString(n)

MakePayload(method, params, n) ==
    [method |-> method, params |-> params, jsonrpc |-> "2.0", id |-> Uuid4(n)]

NoEnvelope == [method |-> "", params |-> Positional(<<>>), jsonrpc |-> "", id |-> ""]

\* the command wrappers: (method, params) handed to _jsonrpc_call
set_light_from_hsbk(target, h, s, b, k, t) ==
    [method |-> "set_light_from_hsbk", params |-> Positional(<<target, h, s, b, k, t>>)]

set_waveform(target, waveform, h, s, b, k, period, cycles, skew_ratio, transient) ==
    [method |-> "set_waveform",
     params |-> Positional(<<target, waveform, h, s, b, k,
                             period, cycles, skew_ratio, transient>>)]

\* a saw() that passes period and cycles positionally, in its own order
sawPositional(target, h, s, b, k, period, cycles, transient) ==
    set_waveform(target, "SAW", h, s, b, k, cycles, period, "0.5", transient)

saw(target, h, s, b, k, period, cycles, transient) ==
    set_waveform(target, "SAW", h, s, b, k, period, cycles, "0.5", transient)

sine(target, h, s, b, k, period, cycles, peak, transient) ==
    set_waveform(target, "SINE", h, s, b, k, period, cycles, peak, transient)

half_sine(target, h, s, b, k, period, cycles, transient) ==
    set_waveform(target, "HALF_SINE", h, s, b, k, period, cycles, "0.5", transient)

triangle(target, h, s, b, k, period, cycles, peak, transient) ==
    set_waveform(target, "TRIANGLE", h, s, b, k, period, cycles, peak, transient)

square(target, h, s, b, k, period, cycles, duty_cycle, transient) ==
    set_waveform(target, "SQUARE", h, s, b, k, period, cycles, duty_cycle, transient)

power_on(target) == [method |-> "power_on", params |-> Named(<<"target">>, <<target>>)]
power_off(target) == [method |-> "power_off", params |-> Named(<<"target">>, <<target>>)]
power_toggle(target) ==
    [method |-> "power_toggle", params |-> Named(<<"target">>, <<target>>)]
get_light_state(target) == [method |-> "get_light_state", params |-> Positional(<<target>>)]
tag(target, t) == [method |-> "tag", params |-> Positional(<<target, t>>)]
untag(target, t) == [method |-> "untag", params |-> Positional(<<target, t>>)]
set_label(target, label) == [method |-> "set_label", params |-> Positional(<<target, label>>)]

\* the arguments of one wrapper call; a.wrapper names the wrapper
WrapperNames ==
    {"set_light_from_hsbk", "set_waveform", "saw", "sine", "half_sine", "triangle",
     "square", "power_on", "power_off", "power_toggle", "get_light_state", "tag",
     "untag", "set_label"}

NoArgs ==
    [wrapper |-> "", target |-> "", tag |-> "", label |-> "", h |-> "", s |-> "",
     b |-> "", k |-> "", t |-> "", waveform |-> "", period |-> "", cycles |-> "",
     skew_ratio |-> "", transient |-> ""]

\* skew_ratio stands for peak and duty_cycle, "0.5" and "true" are the defaults
ArgSets ==
    {[NoArgs EXCEPT !.wrapper = w, !.target = tg, !.tag = "kitchen", !.label = "desk",
                    !.h = "120", !.s = "0.3", !.b = "0.9", !.k = "3500", !.t = "500",
                    !.waveform = wf, !.period = "1000", !.cycles = "3",
                    !.skew_ratio = sk, !.transient = tr] :
        w \in WrapperNames, tg \in {"*", "bulb1"}, wf \in {"SAW", "SQUARE"},
        sk \in {"0.5", "0.7"}, tr \in {"true", "false"}}

ApplyWrapper(a) ==
    CASE a.wrapper = "set_light_from_hsbk" ->
            set_light_from_hsbk(a.target, a.h, a.s, a.b, a.k, a.t)
      [] a.wrapper = "set_waveform" ->
            set_waveform(a.target, a.waveform, a.h, a.s, a.b, a.k,
                         a.period, a.cycles, a.skew_ratio, a.transient)
      [] a.wrapper = "saw" ->
            saw(a.target, a.h, a.s, a.b, a.k, a.period, a.cycles, a.transient)
      [] a.wrapper = "sine" ->
            sine(a.target, a.h, a.s, a.b, a.k, a.period, a.cycles, a.skew_ratio,
                 a.transient)
      [] a.wrapper = "half_sine" ->
            half_sine(a.target, a.h, a.s, a.b, a.k, a.period, a.cycles, a.transient)
      [] a.wrapper = "triangle" ->
            triangle(a.target, a.h, a.s, a.b, a.k, a.period, a.cycles, a.skew_ratio,
                     a.transient)
      [] a.wrapper = "square" ->
            square(a.target, a.h, a.s, a.b, a.k, a.period, a.cycles, a.skew_ratio,
                   a.transient)
      [] a.wrapper = "power_on" -> power_on(a.target)
      [] a.wrapper = "power_off" -> power_off(a.target)
      [] a.wrapper = "power_toggle" -> power_toggle(a.target)
      [] a.wrapper = "get_light_state" -> get_light_state(a.target)
      [] a.wrapper = "tag" -> tag(a.target, a.tag)
      [] a.wrapper = "untag" -> untag(a.target, a.tag)
      [] a.wrapper = "set_label" -> set_label(a.target, a.label)

\* _jsonrpc_call never looks into method or params: one command stands for all
Targets == {"*"}
Commands == {power_on(t) : t \in Targets}

\* ----------------------------------------------------------- json.dumps
DumpsParams(p) ==
    IF p.shape = "map"
    THEN <<"{">> \o [i \in 1..(2 * Len(p.keys)) |->
                        IF i % 2 = 1 THEN p.keys[(i + 1) \div 2] ELSE p.vals[i \div 2]]
                 \o <<"}">>
    ELSE <<"[">> \o p.vals \o <<"]">>

DumpsEnvelope(e) ==
    <<"{", "method", e.method, "params">> \o DumpsParams(e.params)
        \o <<"jsonrpc", e.jsonrpc, "id", e.id, "}">>

RECURSIVE DumpsItems(_)
DumpsItems(s) == IF s = <<>> THEN <<>> ELSE DumpsEnvelope(Head(s)) \o DumpsItems(Tail(s))

JsonDumps(payload) ==
    IF payload.kind = "list"
    THEN <<"[">> \o DumpsItems(payload.items) \o <<"]">>
    ELSE DumpsEnvelope(payload.env)

\* ----------------------------------------------------------- json.loads
Garbage == "<html>"
Structural == {"{", "}", "[", "]"}
IsScalar(lex) == lex \notin Structural /\ lex # Garbage

ParseFail == [ok |-> FALSE, value |-> None, next |-> 0]

\* the numbers the model reads, and their JSON text
Numbers == 0..12 \cup {120, 2700, 3500}
IsNumber(lex) == \E n \in Numbers : ToString(n) = lex
ParseNumber(lex) == CHOOSE n \in Numbers : ToString(n) = lex

\* the bulbs of a get_light_state result, from lexeme i up to the closing bracket
RECURSIVE ParseBulbs(_, _, _)
ParseBulbs(text, i, acc) ==
    IF i > Len(text) THEN ParseFail
    ELSE IF text[i] = "]" THEN [ok |-> TRUE, value |-> PyList(acc), next |-> i + 1]
    ELSE IF /\ i + 10 <= Len(text)
            /\ text[i] = "{" /\ text[i + 1] = "hsbk" /\ text[i + 2] = "["
            /\ \A j \in 3..6 : IsNumber(text[i + j])
            /\ text[i + 7] = "]" /\ text[i + 8] = "label" /\ IsScalar(text[i + 9])
            /\ text[i + 10] = "}"
    THEN ParseBulbs(text, i + 11,
                    Append(acc, Bulb(text[i + 9], ParseNumber(text[i + 3]),
                                     ParseNumber(text[i + 4]), ParseNumber(text[i + 5]),
                                     ParseNumber(text[i + 6]))))
    ELSE ParseFail

\* one response object starting at lexeme i
ParseObject(text, i) ==
    IF /\ i + 5 <= Len(text)
       /\ text[i] = "{" /\ text[i + 1] = "id" /\ IsScalar(text[i + 2])
       /\ text[i + 3] = "result" /\ IsScalar(text[i + 4]) /\ text[i + 5] = "}"
    THEN [ok |-> TRUE, value |-> ResultDict(text[i + 2], text[i + 4]), next |-> i + 6]
    ELSE IF /\ i + 10 <= Len(text)
            /\ text[i] = "{" /\ text[i + 1] = "id" /\ IsScalar(text[i + 2])
            /\ text[i + 3] = "error" /\ text[i + 4] = "{"
            /\ text[i + 5] = "code" /\ IsScalar(text[i + 6])
            /\ text[i + 7] = "message" /\ IsScalar(text[i + 8])
            /\ text[i + 9] = "}" /\ text[i + 10] = "}"
    THEN [ok |-> TRUE, value |-> ErrorDict(text[i + 2], text[i + 6], text[i + 8]),
          next |-> i + 11]
    ELSE IF /\ i + 4 <= Len(text)
            /\ text[i] = "{" /\ text[i + 1] = "id" /\ IsScalar(text[i + 2])
            /\ text[i + 3] = "result" /\ text[i + 4] = "["
    THEN LET bs == ParseBulbs(text, i + 5, <<>>)
         IN IF bs.ok /\ bs.next <= Len(text) /\ text[bs.next] = "}"
            THEN [ok |-> TRUE, value |-> StateDict(text[i + 2], bs.value.items),
                  next |-> bs.next + 1]
            ELSE ParseFail
    ELSE ParseFail

\* the elements of an array, from lexeme i up to its closing bracket
RECURSIVE ParseItems(_, _, _)
ParseItems(text, i, acc) ==
    IF i > Len(text) THEN ParseFail
    ELSE IF text[i] = "]" THEN [ok |-> TRUE, value |-> PyList(acc), next |-> i + 1]
    ELSE LET o == ParseObject(text, i)
         IN IF o.ok THEN ParseItems(text, o.next, Append(acc, o.value)) ELSE ParseFail

\* json.loads: the whole text must be exactly one value
JsonLoads(text) ==
    IF text = <<>> THEN ParseFail
    ELSE LET r == IF text[1] = "[" THEN ParseItems(text, 2, <<>>) ELSE ParseObject(text, 1)
         IN IF r.ok /\ r.next = Len(text) + 1 THEN r ELSE ParseFail

\* ------------------------------------------------------------- the server
\* What lightsd (or whatever answers on the socket) may write back.
ResultVals == {"42"}
BadUtf8 == "<0xff>"

ResultText(id, r) == <<"{", "id", id, "result", r, "}">>
ErrorText(id, c, m) ==
    <<"{", "id", id, "error", "{", "code", c, "message", m, "}", "}">>

ReplyObjects(id) == {ResultText(id, r) : r \in ResultVals} \cup {ErrorText(id, "-1", "boom")}

\* the bulbs the server may report, and the text of its report
Bulb1 == Bulb("bulb1", 0, 0, 9, 3500)
Bulb2 == Bulb("bulb2", 120, 5, 1, 2700)
DeviceLists == {<<>>, <<Bulb1>>, <<Bulb2>>, <<Bulb1, Bulb2>>, <<Bulb2, Bulb1>>}

RECURSIVE BulbsText(_)
BulbsText(bulbs) ==
    IF bulbs = <<>> THEN <<>>
    ELSE LET x == Head(bulbs)
         IN <<"{", "hsbk", "[", ToString(x.hsbk[1]), ToString(x.hsbk[2]),
              ToString(x.hsbk[3]), ToString(x.hsbk[4]), "]", "label", x.label, "}">>
                \o BulbsText(Tail(bulbs))

StateText(id, bulbs) ==
    <<"{", "id", id, "result", "[">> \o BulbsText(bulbs) \o <<"]", "}">>

\* the orders in which the server may answer some or all of n requests
Orders(n) ==
    {s \in UNION {[1..k -> 1..n] : k \in 1..n} :
        \A i, j \in DOMAIN s : s[i] = s[j] => i = j}

RECURSIVE ArrayBody(_, _)
ArrayBody(ids, order) ==
    IF order = <<>> THEN <<>>
    ELSE ResultText(ids[Head(order)], "42") \o ArrayBody(ids, Tail(order))

RequestIds(payload) ==
    IF payload.kind = "list"
    THEN [i \in 1..Len(payload.items) |-> payload.items[i].id]
    ELSE <<payload.env.id>>

ServerReplies(payload, s) ==
    IF s # "open" THEN {<<>>}
    ELSE LET ids == RequestIds(payload)
         IN IF payload.kind = "dict" /\ payload.env.method = "get_light_state"
            THEN {StateText(ids[1], d) : d \in DeviceLists}
                    \cup {ErrorText(ids[1], "-1", "boom"), <<Garbage>>, <<BadUtf8>>}
            ELSE IF payload.kind = "dict"
            THEN ReplyObjects(ids[1]) \cup {<<Garbage>>, <<BadUtf8>>}
            ELSE IF ids = <<>>
            THEN {ErrorText("null", "-32600", "Invalid Request")}
            ELSE {<<"[">> \o ArrayBody(ids, o) \o <<"]">> : o \in Orders(Len(ids))}
                    \cup (IF Len(ids) = 1 THEN ReplyObjects(ids[1]) ELSE {})
                    \cup {<<Garbage>>, <<BadUtf8>>}

\* how the socket may behave during one exchange
Outcomes(s) ==
    IF s \in {"open", "peer_closed"} THEN {"ok", "send_fails", "recv_fails"}
    ELSE {"send_fails"}

\* how many lexemes of the stream one recv may return: everything that has
\* arrived, at least one lexeme unless the peer has closed
Reads(stream) ==
    IF stream = <<>> THEN {0}
    ELSE {k \in 1..Min(Len(stream), RecvBufSize) : Len(stream) - k <= MaxUnread}

\* ------------------------------------------------------- _execute_payload
\* a _execute_payload that hands back the decoded text without json.loads
DecodeResponseRaw(data) == PyStr(data)

\* lines 66-72: decode, json.loads, and the raw text when loads raises
DecodeResponse(data) ==
    IF JsonLoads(data).ok THEN JsonLoads(data).value ELSE PyStr(data)

\* a _execute_payload that writes the payload twice before it reads
ExecutePayloadResend(payload, outcome, reply, n) ==
    LET stream == unread \o reply
        data == SubSeq(stream, 1, n)
    IN  IF outcome = "send_fails"
        THEN [raised |-> "OSError", value |-> None,
              sock |-> IF sock = "closed" THEN sock ELSE "broken",
              unread |-> unread, wire |-> wire, received |-> <<>>,
              sent |-> FALSE, read |-> -1]
        ELSE IF outcome = "recv_fails"
        THEN [raised |-> "OSError", value |-> None, sock |-> "broken",
              unread |-> <<>>, wire |-> wire + 2, received |-> <<>>,
              sent |-> TRUE, read |-> -1]
        ELSE IF \E i \in DOMAIN data : data[i] = BadUtf8
        THEN [raised |-> "UnicodeDecodeError", value |-> None, sock |-> sock,
              unread |-> SubSeq(stream, n + 1, Len(stream)),
              wire |-> wire + 2, received |-> data, sent |-> TRUE, read |-> n]
        ELSE [raised |-> "none", value |-> IF JsonLoads(data).ok
                                           THEN JsonLoads(data).value ELSE PyStr(data),
              sock |-> sock,
              unread |-> SubSeq(stream, n + 1, Len(stream)),
              wire |-> wire + 2, received |-> data, sent |-> TRUE, read |-> n]

ExecutePayload(payload, outcome, reply, n) ==
    LET stream == unread \o reply
        data == SubSeq(stream, 1, n)
    IN  IF outcome = "send_fails"
        THEN [raised |-> "OSError", value |-> None,
              sock |-> IF sock = "closed" THEN sock ELSE "broken",
              unread |-> unread, wire |-> wire, received |-> <<>>,
              sent |-> FALSE, read |-> -1]
        ELSE IF outcome = "recv_fails"
        THEN [raised |-> "OSError", value |-> None, sock |-> "broken",
              unread |-> <<>>, wire |-> wire + 1, received |-> <<>>,
              sent |-> TRUE, read |-> -1]
        ELSE IF \E i \in DOMAIN data : data[i] = BadUtf8
        THEN [raised |-> "UnicodeDecodeError", value |-> None, sock |-> sock,
              unread |-> SubSeq(stream, n + 1, Len(stream)),
              wire |-> wire + 1, received |-> data, sent |-> TRUE, read |-> n]
        ELSE [raised |-> "none", value |-> DecodeResponse(data), sock |-> sock,
              unread |-> SubSeq(stream, n + 1, Len(stream)),
              wire |-> wire + 1, received |-> data, sent |-> TRUE, read |-> n]

\* ------------------------------------------------------------ bookkeeping
\* `last` records one operation as its caller saw it; the fields an
\* operation does not use keep the values below.
NoOp ==
    [op |-> "init", raised |-> "none", ret |-> None,
     batchBefore |-> FALSE, unreadBefore |-> <<>>,
     envelope |-> NoEnvelope, payload |-> <<>>, reply |-> <<>>, received |-> <<>>,
     calls |-> <<>>, wireAtBegin |-> 0, response |-> <<>>,
     sent |-> FALSE, read |-> -1, args |-> NoArgs]

Before(op) ==
    [NoOp EXCEPT !.op = op, !.batchBefore = batch, !.unreadBefore = unread,
                 !.args = last.args]

\* a call made inside open batch scopes belongs to each of them
RecordCall(ss, e) == [i \in DOMAIN ss |-> [ss[i] EXCEPT !.calls = Append(@, e)]]

\* no call of adjust_brightness yet
NoAdjust ==
    [pc |-> "idle", count |-> 0, target |-> "", adjustment |-> 0,
     batchBefore |-> FALSE, first |-> 0, get |-> NoEnvelope, received |-> <<>>,
     todo |-> <<>>, issued |-> <<>>, raised |-> "none"]

Init ==
    /\ batch = FALSE
    /\ pipeline = <<>>
    /\ sock = "open"
    /\ unread = <<>>
    /\ wire = 0
    /\ nextId = 1
    /\ scopes = <<>>
    /\ nBatches = 0
    /\ made = <<>>
    /\ flushed = <<>>
    /\ ab = NoAdjust
    /\ last = NoOp

\* --------------------------------------------------------- _jsonrpc_call
\* a _jsonrpc_call that puts the new envelope in front of the pending ones
EnqueueFront(pending, payload) == <<payload>> \o pending

\* line 77
Enqueue(pending, payload) == Append(pending, payload)

JsonrpcCall(method, params) ==
    /\ nextId' = nextId + 1
    /\ UNCHANGED flushed
    /\ LET payload == MakePayload(method, params, nextId)
       IN /\ scopes' = RecordCall(scopes, payload)
          /\ made' = Append(made, payload)
          /\ IF batch
             THEN /\ pipeline' = Enqueue(pipeline, payload)
                  /\ last' = [Before("call") EXCEPT !.envelope = payload, !.ret = None]
                  /\ UNCHANGED <<batch, sock, unread, wire, nBatches>>
             ELSE \E outcome \in Outcomes(sock), reply \in ServerReplies(PyDict(payload), sock) :
                  \E n \in Reads(unread \o reply) :
                    LET out == ExecutePayload(PyDict(payload), outcome, reply, n)
                    IN /\ sock' = out.sock
                       /\ unread' = out.unread
                       /\ wire' = out.wire
                       /\ last' = [Before("call") EXCEPT
                                      !.envelope = payload,
                                      !.payload = JsonDumps(PyDict(payload)),
                                      !.reply = reply,
                                      !.received = out.received,
                                      !.raised = out.raised,
                                      !.sent = out.sent,
                                      !.read = out.read,
                                      !.ret = out.value]
                       /\ UNCHANGED <<batch, pipeline, nBatches>>

Call ==
    /\ nextId <= MaxCalls
    /\ UNCHANGED ab
    /\ \E c \in Commands : JsonrpcCall(c.method, c.params)

\* ------------------------------------------------------------------ batch
\* lines 86-88: entering `with self.batch() as response`
BeginBatch ==
    /\ nBatches < MaxBatches
    /\ batch' = TRUE
    /\ scopes' = Append(scopes, [calls |-> <<>>, wireAtBegin |-> wire])
    /\ nBatches' = nBatches + 1
    /\ last' = Before("begin_batch")
    /\ UNCHANGED <<pipeline, sock, unread, wire, nextId, made, flushed, ab>>

\* a batch() that appends the reply whatever its type
ReshapeAppend(result) == <<result>>

\* lines 91-94: what the reply puts into the caller's (empty) response list
Reshape(result) == IF result.kind = "list" THEN result.items ELSE <<result>>

\* lines 89-95: leaving the with-block normally
EndBatch ==
    /\ scopes # <<>>
    /\ LET scope == scopes[Len(scopes)]
           payload == PyList(pipeline)
       IN \E outcome \in Outcomes(sock), reply \in ServerReplies(payload, sock) :
          \E n \in Reads(unread \o reply) :
            LET out == ExecutePayload(payload, outcome, reply, n)
            IN /\ batch' = FALSE
               /\ sock' = out.sock
               /\ unread' = out.unread
               /\ wire' = out.wire
               /\ pipeline' = IF out.raised = "none" THEN <<>> ELSE pipeline
               /\ flushed' = IF out.sent THEN Append(flushed, RequestIds(payload))
                                         ELSE flushed
               /\ last' = [Before("end_batch") EXCEPT
                              !.payload = JsonDumps(payload),
                              !.reply = reply,
                              !.received = out.received,
                              !.raised = out.raised,
                              !.sent = out.sent,
                              !.read = out.read,
                              !.ret = out.value,
                              !.calls = scope.calls,
                              !.wireAtBegin = scope.wireAtBegin,
                              !.response = IF out.raised = "none"
                                           THEN Reshape(out.value) ELSE <<>>]
    /\ scopes' = SubSeq(scopes, 1, Len(scopes) - 1)
    /\ UNCHANGED <<nextId, nBatches, made, ab>>

\* line 88: the with-block's body raises; the exception is thrown into the
\* generator at its yield, nothing after the yield runs
BodyRaises ==
    /\ scopes # <<>>
    /\ scopes' = SubSeq(scopes, 1, Len(scopes) - 1)
    /\ last' = [Before("body_raises") EXCEPT !.raised = "Exception",
                    !.calls = scopes[Len(scopes)].calls]
    /\ UNCHANGED <<batch, pipeline, sock, unread, wire, nextId, nBatches, made,
                   flushed, ab>>

\* ------------------------------------------------------------- the socket
\* lines 81-82
Close ==
    /\ sock' = "closed"
    /\ last' = Before("close")
    /\ UNCHANGED <<batch, pipeline, unread, wire, nextId, scopes, nBatches, made,
                   flushed, ab>>

\* the server closes its end of the connection
PeerCloses ==
    /\ sock = "open"
    /\ sock' = "peer_closed"
    /\ UNCHANGED <<batch, pipeline, unread, wire, nextId, scopes, nBatches, made,
                   flushed, ab, last>>

Next == Call \/ BeginBatch \/ EndBatch \/ BodyRaises \/ Close \/ PeerCloses

Spec == Init /\ [][Next]_vars

\* ------------------------------------------------------ adjust_brightness
\* adjust_brightness sends a request per bulb, so it is modelled one exchange
\* at a time; while it is in its loop (ab.pc = "loop") the client does
\* nothing else.  Brightness and adjustment are counted in tenths.
Max(a, b) == IF a > b THEN a ELSE b

\* a clamp that forgets the lower limit
ClampUpperOnly(b) == Min(b, 10)

\* line 182: max(min(b, 1.0), 0.0)
Clamp(b) == Max(Min(b, 10), 0)

\* a lenient subscript: anything without a result counts as no bulbs
ResultOfLenient(r) ==
    IF r.kind = "dict" /\ "bulbs" \in DOMAIN r
    THEN [raised |-> "none", bulbs |-> r.bulbs]
    ELSE [raised |-> "none", bulbs |-> <<>>]

\* lines 179-180: `[...]["result"]` on what get_light_state returned, and
\* the start of the iteration over it
ResultOf(r) ==
    IF r.kind # "dict" THEN [raised |-> "TypeError", bulbs |-> <<>>]
    ELSE IF r.member # "result" THEN [raised |-> "KeyError", bulbs |-> <<>>]
    ELSE IF "bulbs" \in DOMAIN r THEN [raised |-> "none", bulbs |-> r.bulbs]
    ELSE [raised |-> "TypeError", bulbs |-> <<>>]

\* lines 178-180: get_light_state and the subscript of its return value
AdjustBrightness(target, adjustment) ==
    /\ ab.pc # "loop"
    /\ ab.count < MaxAdjusts
    /\ JsonrpcCall(get_light_state(target).method, get_light_state(target).params)
    /\ LET res == IF last'.raised # "none"
                  THEN [raised |-> last'.raised, bulbs |-> <<>>]
                  ELSE ResultOf(last'.ret)
       IN ab' = [pc |-> IF res.raised # "none" THEN "failed"
                        ELSE IF res.bulbs = <<>> THEN "done" ELSE "loop",
                 count |-> ab.count + 1,
                 target |-> target,
                 adjustment |-> adjustment,
                 batchBefore |-> batch,
                 first |-> nextId,
                 get |-> last'.envelope,
                 received |-> last'.received,
                 todo |-> res.bulbs,
                 issued |-> <<>>,
                 raised |-> res.raised]

\* lines 180-183: one turn of the loop
AdjustNext ==
    /\ ab.pc = "loop"
    /\ LET bulb == Head(ab.todo)
           h == bulb.hsbk[1]
           s == bulb.hsbk[2]
           b == Clamp(bulb.hsbk[3] + ab.adjustment)
           k == bulb.hsbk[4]
           c == set_light_from_hsbk(bulb.label, ToString(h), ToString(s), ToString(b),
                                    ToString(k), "500")
       IN /\ JsonrpcCall(c.method, c.params)
          /\ ab' = [ab EXCEPT
                        !.issued = Append(@, last'.envelope),
                        !.todo = Tail(@),
                        !.raised = last'.raised,
                        !.pc = IF last'.raised # "none" THEN "failed"
                               ELSE IF Tail(ab.todo) = <<>> THEN "done" ELSE "loop"]

Adjust == \E t \in Targets, d \in {-2, 2} : AdjustBrightness(t, d)

NextAdjust ==
    \/ Adjust
    \/ AdjustNext
    \/ (ab.pc # "loop" /\ BeginBatch)
    \/ PeerCloses

SpecAdjust == Init /\ [][NextAdjust]_vars

\* ------------------------------------------------- the wrappers on their own
\* One wrapper call with arguments drawn at the start, on a fresh client.
InitWrapper ==
    /\ batch = FALSE
    /\ pipeline = <<>>
    /\ sock = "open"
    /\ unread = <<>>
    /\ wire = 0
    /\ nextId = 1
    /\ scopes = <<>>
    /\ nBatches = 0
    /\ made = <<>>
    /\ flushed = <<>>
    /\ ab = NoAdjust
    /\ last \in {[NoOp EXCEPT !.args = a] : a \in ArgSets}

WrapperCall ==
    /\ last.op = "init"
    /\ UNCHANGED ab
    /\ JsonrpcCall(ApplyWrapper(last.args).method, ApplyWrapper(last.args).params)

SpecWrapper == InitWrapper /\ [][WrapperCall]_vars

\* ================================================================ claims
\* the last operation performed a send and a recv that returned
Exchanged == last.op \in {"call", "end_batch"} /\ last.payload # <<>>
SingleCall == last.op = "call" /\ ~last.batchBefore
ClosedBatch == last.op = "end_batch" /\ last.raised = "none"
\* the closed batch sent exactly the calls made inside it
SentItsCalls == last.payload = JsonDumps(PyList(last.calls))
\* the reply array holds an entry for the i-th call of the closed batch
Answered(i) ==
    \E j \in 1..Len(last.ret.items) : last.ret.items[j].id = last.calls[i].id

\* C1: after every batch close, whether the exchange succeeded or raised,
\* the session is in single mode and the pending list is empty.
C1_BatchCloseResets ==
    last.op = "end_batch" => (batch = FALSE /\ pipeline = <<>>)

\* C2: when the reply to a batch is an array holding one entry per call, in
\* any order, the i-th result handed back is the reply whose id is the id of
\* the i-th call of the batch.
C2_MatchedById ==
    (/\ ClosedBatch /\ SentItsCalls
     /\ last.ret.kind = "list"
     /\ Len(last.ret.items) = Len(last.calls)
     /\ \A i \in 1..Len(last.calls) : Answered(i))
    => \A i \in 1..Len(last.calls) : last.response[i].id = last.calls[i].id

\* C3: a batch of N calls results in exactly one exchange, at the close,
\* whose payload is the array of exactly those N envelopes in call order.
C3_OneArrayPerBatch ==
    ClosedBatch => (SentItsCalls /\ wire = last.wireAtBegin + 1)

\* C4: a call made in batching mode appends exactly its one envelope to the
\* end of pending, returns no value and touches neither the socket nor the
\* mode nor the earlier pending entries.
C4_BatchedCallOnlyEnqueues ==
    [][(batch /\ last'.op = "call" /\ nextId' = nextId + 1)
        => /\ pipeline' = Append(pipeline, last'.envelope)
           /\ last'.envelope.id = Uuid4(nextId)
           /\ last'.ret = None /\ last'.raised = "none"
           /\ batch' = batch /\ wire' = wire /\ unread' = unread /\ sock' = sock]_vars

C4_Witness ==
    last.op = "call" /\ last.batchBefore /\ Len(pipeline) = 2
        /\ pipeline[2] = last.envelope

\* C5 as stated: in single mode, a reply {id: X, result: R} to the call with
\* id X makes the call return R itself.
PyScalar(r) == [kind |-> "scalar", value |-> r]

C6_ErrorReplyRaises ==
    (SingleCall /\ last.received = ErrorText(last.envelope.id, "-1", "boom"))
    => last.raised = "RpcError"

\* C7: beginning a batch while the session is already batching fails with
\* StateError.
C7_NestedBeginFails ==
    (last.op = "begin_batch" /\ last.batchBefore) => last.raised = "StateError"

\* C8: at a batch close every call of the batch gets one entry in the
\* results, a call that no reply entry answers being reported as RpcError
\* MISSING_REPLY.
C8_OneResultPerCall ==
    (ClosedBatch /\ SentItsCalls /\ last.ret.kind = "list")
    => /\ Len(last.response) = Len(last.calls)
       /\ \A i \in 1..Len(last.calls) :
            ~Answered(i) => last.response[i].kind = "RpcError"

\* C9: when the server writes a complete JSON value, in however many pieces
\* it arrives, the exchange returns that value parsed; it never returns
\* after a read that delivered a proper prefix only.
C9_ReadsUntilComplete ==
    (Exchanged /\ last.raised = "none" /\ last.unreadBefore = <<>>
        /\ JsonLoads(last.reply).ok)
    => last.ret = JsonLoads(last.reply).value

\* C10: when the text received does not parse as JSON the exchange fails
\* with MalformedResponseError; the raw text is never returned as a value.
C10_MalformedRaises ==
    (/\ Exchanged /\ last.raised # "OSError"
     /\ last.received # <<>>
     /\ \A i \in DOMAIN last.received : last.received[i] # BadUtf8
     /\ ~JsonLoads(last.received).ok)
    => (last.raised = "MalformedResponseError" /\ last.ret.kind # "str")

\* C11: a zero-byte read (the peer closed the connection) makes the
\* exchange fail with ConnectionError; it is never returned as a value.
C11_ZeroReadRaises ==
    (Exchanged /\ last.read = 0) => last.raised = "ConnectionError"

\* C12: every envelope constructed has jsonrpc "2.0" and a non-empty id, and
\* no two envelopes constructed in a run share an id.
C12_EnvelopesUnique ==
    \A i \in DOMAIN made :
        /\ made[i].jsonrpc = "2.0"
        /\ made[i].id # ""
        /\ \A j \in DOMAIN made : made[i].id = made[j].id => i = j

C12_Witness ==
    Len(made) = 2 /\ wire = 1 /\ Len(pipeline) = 1 /\ pipeline[1] = made[2]

\* C14: no request envelope is transmitted in more than one batch, also
\* after a batch whose flush failed.
C14_NoEnvelopeInTwoBatches ==
    \A i, j \in DOMAIN flushed :
        i # j => \A a \in DOMAIN flushed[i], b \in DOMAIN flushed[j] :
                    flushed[i][a] # flushed[j][b]

\* C15: when the body of a batch scope raises, the closing action still
\* runs: the session is back in single mode with an empty pending list.
C15_BodyFailureResets ==
    last.op = "body_raises" => (batch = FALSE /\ pipeline = <<>>)

\* C16: a single-mode call returns the reply to its own request: when the
\* server answered the request and everything it wrote has been read, the
\* value returned carries the id of the request this call sent.
C16_OwnReply ==
    (/\ SingleCall /\ last.raised = "none"
     /\ last.reply \in ReplyObjects(last.envelope.id)
     /\ unread = <<>>)
    => (last.ret.kind = "dict" /\ last.ret.id = last.envelope.id)

\* how many times a lexeme occurs in a text
CountLex(text, lex) == Cardinality({i \in DOMAIN text : text[i] = lex})

\* C18: at a batch close a reply that is one object becomes the lone element
\* of the results; a reply that is an array of k elements gives exactly
\* those k elements.
C18_ReplyReshaped ==
    (ClosedBatch /\ JsonLoads(last.received).ok)
    => IF last.received[1] = "["
       THEN /\ last.response = JsonLoads(last.received).value.items
            /\ Len(last.response) = CountLex(last.received, "id")
       ELSE last.response = <<JsonLoads(last.received).value>>

C18_Witness ==
    /\ ClosedBatch /\ Len(last.calls) = 1 /\ SentItsCalls
    /\ last.received = ResultText(last.calls[1].id, "42")
    /\ Len(last.response) = 1

\* C19: a call in single mode performs one send followed by one receive and
\* leaves the mode and the pending list as they were.
C19_SingleCallOneExchange ==
    [][(~batch /\ last'.op = "call" /\ nextId' = nextId + 1)
        => /\ batch' = batch /\ pipeline' = pipeline
           /\ last'.payload = DumpsEnvelope(last'.envelope)
           /\ wire' = IF last'.sent THEN wire + 1 ELSE wire
           /\ last'.raised = "none" => (last'.sent /\ last'.read >= 0)
           /\ last'.read >= 0 => last'.sent]_vars

C19_Witness ==
    /\ SingleCall /\ last.raised = "none" /\ last.sent /\ last.read > 0
    /\ wire = 1 /\ pipeline = <<>> /\ ~batch

\* the method catalogue: what each wrapper has to put on the wire
PresetWaveform(w) ==
    CASE w = "saw" -> "SAW" [] w = "sine" -> "SINE" [] w = "half_sine" -> "HALF_SINE"
      [] w = "triangle" -> "TRIANGLE" [] w = "square" -> "SQUARE"

Catalogue(a) ==
    IF a.wrapper \in {"power_on", "power_off", "power_toggle"}
    THEN [method |-> a.wrapper, params |-> Named(<<"target">>, <<a.target>>)]
    ELSE IF a.wrapper = "get_light_state"
    THEN [method |-> a.wrapper, params |-> Positional(<<a.target>>)]
    ELSE IF a.wrapper \in {"tag", "untag"}
    THEN [method |-> a.wrapper, params |-> Positional(<<a.target, a.tag>>)]
    ELSE IF a.wrapper = "set_label"
    THEN [method |-> a.wrapper, params |-> Positional(<<a.target, a.label>>)]
    ELSE IF a.wrapper = "set_light_from_hsbk"
    THEN [method |-> a.wrapper,
          params |-> Positional(<<a.target, a.h, a.s, a.b, a.k, a.t>>)]
    ELSE [method |-> "set_waveform",
          params |-> Positional(<<
              a.target,
              IF a.wrapper = "set_waveform" THEN a.waveform ELSE PresetWaveform(a.wrapper),
              a.h, a.s, a.b, a.k, a.period, a.cycles,
              IF a.wrapper \in {"saw", "half_sine"} THEN "0.5" ELSE a.skew_ratio,
              a.transient>>)]

\* C17: the envelope a wrapper builds has the method name and the params
\* shape of the method catalogue; set_waveform and its presets send ten
\* elements with period before cycles.
C17_WrappersMatchCatalogue ==
    last.op = "call"
    => /\ last.envelope.method = Catalogue(last.args).method
       /\ last.envelope.params = Catalogue(last.args).params
       /\ last.envelope.method = "set_waveform"
            => /\ Len(last.envelope.params.vals) = 10
               /\ last.envelope.params.vals[7] = last.args.period
               /\ last.envelope.params.vals[8] = last.args.cycles

C17_Witness ==
    /\ last.op = "call" /\ last.args.wrapper = "saw" /\ last.sent
    /\ last.envelope.params.vals = <<"bulb1", "SAW", "120", "0.3", "0.9", "3500",
                                     "1000", "3", "0.5", "false">>

\* the request adjust_brightness owes one bulb: hue, saturation and kelvin as
\* reported, brightness moved by the adjustment and kept within 0..10 tenths
OwedSet(bulb, adjustment) ==
    LET moved == bulb.hsbk[3] + adjustment
        bright == IF moved > 10 THEN 10 ELSE IF moved < 0 THEN 0 ELSE moved
    IN [method |-> "set_light_from_hsbk",
        params |-> Positional(<<bulb.label, ToString(bulb.hsbk[1]),
                                ToString(bulb.hsbk[2]), ToString(bright),
                                ToString(bulb.hsbk[4]), "500">>)]

\* C13: adjust_brightness(target, delta) called in single mode, once the
\* report of the bulbs has arrived whole, makes one get_light_state(target)
\* and then one set_light_from_hsbk per reported bulb, in the reported order,
\* each with the bulb's hue, saturation and kelvin and with its brightness
\* plus delta clamped to [0.0, 1.0]; it stops early only when an exchange
\* raises, and when it returns every bulb has had its request.
C13_AdjustBrightness ==
    \A d \in DeviceLists :
        (/\ ab.pc # "idle" /\ ~ab.batchBefore
         /\ ab.received = StateText(ab.get.id, d))
        => /\ ab.get.method = "get_light_state"
           /\ ab.get.params = Positional(<<ab.target>>)
           /\ Len(ab.issued) <= Len(d)
           /\ \A i \in 1..Len(ab.issued) :
                /\ ab.issued[i].method = OwedSet(d[i], ab.adjustment).method
                /\ ab.issued[i].params = OwedSet(d[i], ab.adjustment).params
           /\ SubSeq(made, ab.first, Len(made)) = <<ab.get>> \o ab.issued
           /\ (ab.pc = "done" => (Len(ab.issued) = Len(d) /\ ab.raised = "none"))
           /\ (ab.pc = "failed" => ab.raised \in {"OSError", "UnicodeDecodeError"})
           /\ (ab.pc = "loop" => Len(ab.issued) < Len(d))

\* two bulbs were reported and both have had their request, one of them clamped
C13_Witness ==
    /\ ab.pc = "done" /\ ~ab.batchBefore /\ ab.adjustment = 2
    /\ ab.received = StateText(ab.get.id, <<Bulb1, Bulb2>>)
    /\ Len(ab.issued) = 2
    /\ ab.issued[1].params.vals = <<"bulb1", "0", "0", "10", "3500", "500">>
    /\ ab.issued[2].params.vals = <<"bulb2", "120", "5", "3", "2700", "500">>

\* C20: adjust_brightness issues a set_light_from_hsbk only after the reply
\* to its own get_light_state has been received; called in batching mode it
\* only enqueues the get_light_state envelope, sends nothing, issues no
\* set_light_from_hsbk and fails.
C20_SetOnlyAfterGet ==
    [][/\ (ab'.issued # <<>>)
            => /\ ~ab'.batchBefore
               /\ JsonLoads(ab'.received).ok
               /\ JsonLoads(ab'.received).value.kind = "dict"
               /\ JsonLoads(ab'.received).value.id = ab'.get.id
       /\ (ab'.count # ab.count /\ batch)
            => /\ ab'.pc = "failed" /\ ab'.raised = "TypeError"
               /\ ab'.issued = <<>>
               /\ ab'.get.method = "get_light_state"
               /\ pipeline' = Append(pipeline, ab'.get)
               /\ wire' = wire
       /\ (ab.batchBefore /\ ab.pc # "idle" /\ ab'.count = ab.count)
            => (ab'.issued = <<>> /\ ab'.pc = "failed")
      ]_vars

\* adjust_brightness was called inside a batch scope and has failed
C20_Witness ==
    /\ ab.pc = "failed" /\ ab.batchBefore /\ ab.raised = "TypeError"
    /\ batch /\ pipeline = <<ab.get>> /\ wire = 0

====
